---- MODULE Spec2Model ----
(***************************************************************************)
(* Model of force_sensor.c: the MLX90393 magnetometer driver of the        *)
(* Raspberry Pi Pico force sensor (bus exchange, status decoding,          *)
(* initialisation, measurement cycle, Z decoding, smoothing, calibration). *)
(*                                                                         *)
(* C `float` is IEEE-754 binary32.  A float is modelled as a record        *)
(* [s, m, e] standing for (-1)^s * m * 2^e, with m = 0 (zero) or           *)
(* 2^23 <= m < 2^24, and every operation rounds to nearest, ties to even,  *)
(* as the C operation does.  All values of the program stay far inside     *)
(* the normal range, so infinities, NaNs and subnormals are not modelled.  *)
(***************************************************************************)
EXTENDS Integers, Sequences, FiniteSets, TLC

(***************************************************************************)
(* binary32 arithmetic                                                     *)
(***************************************************************************)
RECURSIVE BitLen(_)
BitLen(n) == IF n = 0 THEN 0 ELSE 1 + BitLen(n \div 2)

F_Zero == [s |-> 0, m |-> 0, e |-> 0]

\* The float nearest to (-1)^s * (N + d) * 2^e, where d = 0 when sticky is
\* FALSE and 0 < d < 1 when it is TRUE (then N >= 2^24).  Ties go to even.
F_Round(s, N, e, sticky) ==
  IF N = 0 THEN F_Zero
  ELSE LET nb == BitLen(N) IN
       IF nb <= 24
       THEN [s |-> s, m |-> N * 2^(24 - nb), e |-> e - (24 - nb)]
       ELSE LET sh   == nb - 24
                q    == N \div 2^sh
                r    == N % 2^sh
                half == 2^(sh - 1)
                up   == IF sticky THEN r >= half
                        ELSE r > half \/ (r = half /\ q % 2 = 1)
                q2   == IF up THEN q + 1 ELSE q
            IN IF q2 = 2^24
               THEN [s |-> s, m |-> 2^23, e |-> e + sh + 1]
               ELSE [s |-> s, m |-> q2, e |-> e + sh]

\* (float)n for an integer n, |n| < 2^31
F_FromInt(n) == F_Round(IF n < 0 THEN 1 ELSE 0, IF n < 0 THEN -n ELSE n, 0, FALSE)

F_Neg(a) == IF a.m = 0 THEN a ELSE [a EXCEPT !.s = 1 - a.s]

\* a * b: the 48-bit product of the mantissas in 12-bit limbs, then rounded
F_Mul(a, b) ==
  IF a.m = 0 \/ b.m = 0 THEN F_Zero
  ELSE LET a1  == a.m \div 4096
           a0  == a.m % 4096
           b1  == b.m \div 4096
           b0  == b.m % 4096
           mid == a1 * b0 + a0 * b1
           low == a0 * b0 + (mid % 4096) * 4096
           L   == low % 2^24
           H   == a1 * b1 + mid \div 4096 + low \div 2^24
       IN F_Round((a.s + b.s) % 2, H * 64 + L \div 2^18, a.e + b.e + 18,
                  L % 2^18 # 0)

\* n more quotient bits of r / d appended to q: <<quotient, remainder>>
RECURSIVE LongDiv(_, _, _, _)
LongDiv(q, r, d, n) ==
  IF n = 0 THEN <<q, r>>
  ELSE IF 2 * r >= d THEN LongDiv(2 * q + 1, 2 * r - d, d, n - 1)
       ELSE LongDiv(2 * q, 2 * r, d, n - 1)

\* a / b (b # 0): 27 fraction bits of the quotient of the mantissas
F_Div(a, b) ==
  IF a.m = 0 THEN F_Zero
  ELSE LET qr == LongDiv(a.m \div b.m, a.m % b.m, b.m, 27)
       IN F_Round((a.s + b.s) % 2, qr[1], a.e - b.e - 27, qr[2] # 0)

\* a + b: exact when the exponents are close, else with the smaller operand
\* shifted under 6 guard bits of the larger one
F_Add(a, b) ==
  IF a.m = 0 THEN b
  ELSE IF b.m = 0 THEN a
  ELSE LET hi == IF a.e >= b.e THEN a ELSE b
           lo == IF a.e >= b.e THEN b ELSE a
           d  == hi.e - lo.e
           sg(x) == IF x.s = 1 THEN -1 ELSE 1
       IN IF d <= 6
          THEN LET n == sg(hi) * hi.m * 2^d + sg(lo) * lo.m
               IN F_Round(IF n < 0 THEN 1 ELSE 0, IF n < 0 THEN -n ELSE n,
                          lo.e, FALSE)
          ELSE LET k     == d - 6
                   shl   == IF k >= 25 THEN 0 ELSE lo.m \div 2^k
                   lost  == IF k >= 25 THEN TRUE ELSE lo.m % 2^k # 0
                   n     == IF hi.s = lo.s THEN hi.m * 64 + shl
                            ELSE hi.m * 64 - shl - (IF lost THEN 1 ELSE 0)
               IN F_Round(hi.s, n, hi.e - 6, lost)

F_Sub(a, b) == F_Add(a, F_Neg(b))

\* a < b
F_Lt(a, b) ==
  LET magLt(x, y) == IF x.m = 0 THEN y.m # 0
                     ELSE y.m # 0 /\ (x.e < y.e \/ (x.e = y.e /\ x.m < y.m))
  IN IF a.s = 1 /\ a.m # 0
     THEN IF b.s = 1 /\ b.m # 0 THEN magLt(b, a) ELSE TRUE
     ELSE IF b.s = 1 /\ b.m # 0 THEN FALSE ELSE magLt(a, b)

\* the float a decimal literal n/d denotes (n, d exact floats)
F_Dec(n, d) == F_Div(F_FromInt(n), F_FromInt(d))


(***************************************************************************)
(* Configuration (lines 18-33) and the scale table (lines 56-80)           *)
(***************************************************************************)
MLX90393_REG_SM == 48
MLX90393_REG_RM == 64
MLX90393_REG_EX == 128
MLX90393_REG_RT == 240
MLX90393_AXIS_ALL == 14

MLX90393_GAIN_1X == 7
MLX90393_RES_16 == 0
MLX90393_RES_18 == 2
MLX90393_RES_19 == 3

\* 51.94029384743018f  = 13615836 * 2^-18 (51.940292358...)
CALIBRATION_SLOPE == [s |-> 0, m |-> 13615836, e |-> -18]
\* -692.9925307532482f = -11353990 * 2^-14 (-692.99255371...)
CALIBRATION_INTERCEPT == [s |-> 1, m |-> 11353990, e |-> -14]
Z_OFFSET_MT == F_FromInt(20)
FILTER_VAL == F_Dec(4, 10)

\* The table's entries in thousandths of a uT per count:
\* [hallconf half][gain][resolution][0 = XY, 1 = Z], all indices from 1 here.
lsb_milli ==
  << << << <<751, 1210>>, <<1502, 2420>>, <<3004, 4840>>, <<6009, 9680>> >>,
        << <<601, 968>>,  <<1202, 1936>>, <<2403, 3872>>, <<4840, 7744>> >>,
        << <<451, 726>>,  <<901, 1452>>,  <<1803, 2904>>, <<3605, 5808>> >>,
        << <<376, 605>>,  <<751, 1210>>,  <<1502, 2420>>, <<3004, 4840>> >>,
        << <<300, 484>>,  <<601, 968>>,   <<1202, 1936>>, <<2403, 3872>> >>,
        << <<250, 403>>,  <<501, 807>>,   <<1001, 1613>>, <<2003, 3227>> >>,
        << <<200, 323>>,  <<401, 645>>,   <<801, 1291>>,  <<1602, 2581>> >>,
        << <<150, 242>>,  <<300, 484>>,   <<601, 968>>,   <<1202, 1936>> >> >>,
     << << <<787, 1267>>, <<1573, 2534>>, <<3146, 5068>>, <<6292, 10137>> >>,
        << <<629, 1014>>, <<1258, 2027>>, <<2517, 4055>>, <<5034, 8109>> >>,
        << <<472, 760>>,  <<944, 1521>>,  <<1888, 3041>>, <<3775, 6082>> >>,
        << <<393, 634>>,  <<787, 1267>>,  <<1573, 2534>>, <<3146, 5068>> >>,
        << <<315, 507>>,  <<629, 1014>>,  <<1258, 2027>>, <<2517, 4055>> >>,
        << <<262, 422>>,  <<524, 845>>,   <<1049, 1689>>, <<2097, 3379>> >>,
        << <<210, 338>>,  <<419, 676>>,   <<839, 1352>>,  <<1678, 2703>> >>,
        << <<157, 253>>,  <<315, 507>>,   <<629, 1014>>,  <<1258, 2027>> >> >> >>

\* the table's entries as the floats their literals denote
lsb_float ==
  [h \in 1..2 |-> [g \in 1..8 |-> [r \in 1..4 |-> [a \in 1..2 |->
     F_Dec(lsb_milli[h][g][r][a], 1000)]]]]

\* mlx90393_lsb_lookup[h][g][r][a]
mlx90393_lsb_lookup(h, g, r, a) == lsb_float[h + 1][g + 1][r + 1][a + 1]

(***************************************************************************)
(* The bus.  One exchange of mlx_transceive meets one response of the      *)
(* bus: w is what i2c_write_blocking returns, r what i2c_read_blocking     *)
(* returns (a negative error code, or the number of bytes read), data the  *)
(* r bytes the sensor delivered, and junk the indeterminate content of the *)
(* part of the caller's receive buffer that the read left unwritten.       *)
(***************************************************************************)
PICO_ERRORS == {-2}              \* PICO_ERROR_GENERIC: no acknowledge

\* v >> n and the conversion of an int to int16_t
Shr(v, n) == v \div 2^n
ToInt16(v) == ((v + 32768) % 65536) - 32768

VARIABLES
  pc,                 \* where main is: "boot" (before line 229), "loop" (242)
  mlx_gain,           \* line 83
  mlx_res_z,          \* line 84
  smoothed_z,         \* line 89
  first_mag_reading,  \* line 90
  mlx_initialized,    \* line 91
  led_state,          \* line 239
  cycle,              \* iterations of the main loop completed
  io,                 \* bus exchanges and delays of the last step of main
  out,                \* lines the last step of main printed
  sent,               \* per command byte, how often it was sent in this run
  accepted,           \* the readings accepted so far
  init_ret,           \* what the call of mlx_init at line 229 did: [done, ok, io]
  call                \* a function applied on its own: [fn, arg, ret]

vars == <<pc, mlx_gain, mlx_res_z, smoothed_z, first_mag_reading,
          mlx_initialized, led_state, cycle, io, out, sent, accepted,
          init_ret, call>>

NoBus == [w |-> 0, r |-> 0, data |-> <<>>, junk |-> <<>>]
NoFloat == F_Zero
Xfer(cmd, bus, ok) == [op |-> "xfer", cmd |-> cmd, bus |-> bus, ok |-> ok, ms |-> 0]
Sleep(ms) == [op |-> "sleep", cmd |-> 0, bus |-> NoBus, ok |-> TRUE, ms |-> ms]

\* i2c_read_blocking into a buffer: the bytes read, then what was there before
I2cRead(bus) == bus.data \o bus.junk

\* mlx_transceive (lines 97-114), tx_len = 1: [ok, rx], rx the caller's
\* receive buffer afterwards
mlx_transceive(rx_len, bus) ==
  IF bus.w < 0 THEN [ok |-> FALSE, rx |-> bus.junk]
  ELSE IF rx_len > 0
       THEN [ok |-> bus.r > 0, rx |-> I2cRead(bus)]
       ELSE LET status == I2cRead(bus)
            IN [ok |-> bus.r > 0,
                rx |-> IF bus.r > 0 THEN <<status[1]>> ELSE bus.junk]

\* mlx_exit_mode (lines 116-121): [ok, io]
mlx_exit_mode(bus) ==
  LET t == mlx_transceive(0, bus)
  IN IF ~t.ok THEN [ok |-> FALSE, io |-> <<Xfer(MLX90393_REG_EX, bus, FALSE)>>]
     ELSE [ok |-> Shr(t.rx[1], 2) = 0,
           io |-> <<Xfer(MLX90393_REG_EX, bus, TRUE)>>]

\* mlx_reset comparing the status code with 0x00 instead of 0x01
mlx_reset_expects_0(bus) ==
  LET t == mlx_transceive(0, bus)
  IN IF ~t.ok THEN [ok |-> FALSE, io |-> <<Xfer(MLX90393_REG_RT, bus, FALSE)>>]
     ELSE [ok |-> Shr(t.rx[1], 2) = 0,
           io |-> <<Xfer(MLX90393_REG_RT, bus, TRUE), Sleep(5)>>]

\* mlx_reset (lines 123-129): [ok, io]
mlx_reset(bus) ==
  LET t == mlx_transceive(0, bus)
  IN IF ~t.ok THEN [ok |-> FALSE, io |-> <<Xfer(MLX90393_REG_RT, bus, FALSE)>>]
     ELSE [ok |-> Shr(t.rx[1], 2) = 1,
           io |-> <<Xfer(MLX90393_REG_RT, bus, TRUE), Sleep(5)>>]

\* MLX90393_REG_SM | MLX90393_AXIS_ALL and MLX90393_REG_RM | MLX90393_AXIS_ALL:
\* the operands share no bit, so | adds them
CmdSM == MLX90393_REG_SM + MLX90393_AXIS_ALL
CmdRM == MLX90393_REG_RM + MLX90393_AXIS_ALL

\* mlx_start_measurement that does not tolerate code 0x08
mlx_start_measurement_only_0(bus) ==
  LET t == mlx_transceive(0, bus)
  IN IF ~t.ok THEN [ok |-> FALSE, io |-> <<Xfer(CmdSM, bus, FALSE)>>]
     ELSE LET stat == Shr(t.rx[1], 2)
          IN [ok |-> (stat = 0), io |-> <<Xfer(CmdSM, bus, TRUE)>>]

\* mlx_start_measurement (lines 131-137): [ok, io]
mlx_start_measurement(bus) ==
  LET t == mlx_transceive(0, bus)
  IN IF ~t.ok THEN [ok |-> FALSE, io |-> <<Xfer(CmdSM, bus, FALSE)>>]
     ELSE LET stat == Shr(t.rx[1], 2)
          IN [ok |-> (stat = 0 \/ stat = 8), io |-> <<Xfer(CmdSM, bus, TRUE)>>]

\* the count kept in an int wide enough for the subtraction
z_count_wide(hi, lo, res) ==
  LET zi0 == ToInt16(hi * 256 + lo)
      zi1 == IF res = MLX90393_RES_18 THEN zi0 - 32768 ELSE zi0
  IN IF res = MLX90393_RES_19 THEN zi1 - 16384 ELSE zi1

\* lines 147-151: the count zi from data[5], data[6] (data[5] << 8 has a zero
\* low byte, so | adds), stored in an int16_t after each step
z_count(hi, lo, res) ==
  LET zi0 == ToInt16(hi * 256 + lo)
      zi1 == IF res = MLX90393_RES_18 THEN ToInt16(zi0 - 32768) ELSE zi0
  IN IF res = MLX90393_RES_19 THEN ToInt16(zi1 - 16384) ELSE zi1

\* the field scaled by the XY entry of the table
z_field_xy(zi, gain, res) ==
  LET z_uT == F_Mul(F_FromInt(zi), mlx90393_lsb_lookup(0, gain, res, 0))
      z_mT == F_Add(F_Div(z_uT, F_FromInt(1000)), Z_OFFSET_MT)
  IN IF F_Lt(z_mT, F_Zero) THEN F_Zero ELSE z_mT

\* the field scaled from the second half of the table (HALLCONF = 0x0)
z_field_hallconf_0(zi, gain, res) ==
  LET z_uT == F_Mul(F_FromInt(zi), mlx90393_lsb_lookup(1, gain, res, 1))
      z_mT == F_Add(F_Div(z_uT, F_FromInt(1000)), Z_OFFSET_MT)
  IN IF F_Lt(z_mT, F_Zero) THEN F_Zero ELSE z_mT

\* the field without the floor at 0
z_field_unclamped(zi, gain, res) ==
  LET z_uT == F_Mul(F_FromInt(zi), mlx90393_lsb_lookup(0, gain, res, 1))
  IN F_Add(F_Div(z_uT, F_FromInt(1000)), Z_OFFSET_MT)

\* lines 153-160: the field in mT for a count
z_field(zi, gain, res) ==
  LET z_uT == F_Mul(F_FromInt(zi), mlx90393_lsb_lookup(0, gain, res, 1))
      z_mT == F_Add(F_Div(z_uT, F_FromInt(1000)), Z_OFFSET_MT)
  IN IF F_Lt(z_mT, F_Zero) THEN F_Zero ELSE z_mT

\* mlx_read_measurement comparing the status byte, not the code, with 0
mlx_read_measurement_no_shift(bus, gain, res) ==
  LET t == mlx_transceive(6, bus)
  IN IF ~t.ok
     THEN [ok |-> FALSE, wrote |-> FALSE, z |-> NoFloat,
           io |-> <<Xfer(CmdRM, bus, FALSE)>>]
     ELSE IF t.rx[1] = 0
          THEN [ok |-> TRUE, wrote |-> TRUE,
                z |-> z_field(z_count(t.rx[6], t.rx[7], res), gain, res),
                io |-> <<Xfer(CmdRM, bus, TRUE)>>]
          ELSE [ok |-> FALSE, wrote |-> FALSE, z |-> NoFloat,
                io |-> <<Xfer(CmdRM, bus, TRUE)>>]

\* mlx_read_measurement (lines 139-165): [ok, wrote, z, io]; wrote tells
\* whether *z was assigned
mlx_read_measurement(bus, gain, res) ==
  LET t == mlx_transceive(6, bus)
  IN IF ~t.ok
     THEN [ok |-> FALSE, wrote |-> FALSE, z |-> NoFloat,
           io |-> <<Xfer(CmdRM, bus, FALSE)>>]
     ELSE IF Shr(t.rx[1], 2) = 0
          THEN [ok |-> TRUE, wrote |-> TRUE,
                z |-> z_field(z_count(t.rx[6], t.rx[7], res), gain, res),
                io |-> <<Xfer(CmdRM, bus, TRUE)>>]
          ELSE [ok |-> FALSE, wrote |-> FALSE, z |-> NoFloat,
                io |-> <<Xfer(CmdRM, bus, TRUE)>>]

\* mlx_read_data that returns true once the read exchange has run, whatever
\* mlx_read_measurement returned
mlx_read_data_ignores_read(script, gain, res) ==
  LET s == mlx_start_measurement(script[1])
  IN IF ~s.ok
     THEN [ok |-> FALSE, wrote |-> FALSE, z |-> NoFloat, io |-> s.io]
     ELSE LET m == mlx_read_measurement(script[2], gain, res)
          IN [m EXCEPT !.ok = TRUE, !.io = s.io \o <<Sleep(10)>> \o m.io]

\* mlx_read_data that sends EXIT_MODE when START_MEASUREMENT failed
mlx_read_data_reinit(script, gain, res) ==
  LET s == mlx_start_measurement(script[1])
  IN IF ~s.ok
     THEN [ok |-> FALSE, wrote |-> FALSE, z |-> NoFloat,
           io |-> s.io \o mlx_exit_mode(script[1]).io]
     ELSE LET m == mlx_read_measurement(script[2], gain, res)
          IN [m EXCEPT !.io = s.io \o <<Sleep(10)>> \o m.io]

\* mlx_read_data that reads the measurement without waiting for the conversion
mlx_read_data_no_delay(script, gain, res) ==
  LET s == mlx_start_measurement(script[1])
  IN IF ~s.ok
     THEN [ok |-> FALSE, wrote |-> FALSE, z |-> NoFloat, io |-> s.io]
     ELSE LET m == mlx_read_measurement(script[2], gain, res)
          IN [m EXCEPT !.io = s.io \o m.io]

\* mlx_read_data that sends START_MEASUREMENT again when it failed
mlx_read_data_retries(script, gain, res) ==
  LET s == mlx_start_measurement(script[1])
  IN IF ~s.ok
     THEN [ok |-> FALSE, wrote |-> FALSE, z |-> NoFloat, io |-> s.io \o s.io]
     ELSE LET m == mlx_read_measurement(script[2], gain, res)
          IN [m EXCEPT !.io = s.io \o <<Sleep(10)>> \o m.io]

\* mlx_read_data (lines 167-171) on the bus responses it meets, in order
mlx_read_data(script, gain, res) ==
  LET s == mlx_start_measurement(script[1])
  IN IF ~s.ok
     THEN [ok |-> FALSE, wrote |-> FALSE, z |-> NoFloat, io |-> s.io]
     ELSE LET m == mlx_read_measurement(script[2], gain, res)
          IN [m EXCEPT !.io = s.io \o <<Sleep(10)>> \o m.io]

\* mlx_init that marks the driver initialised without the delay after RESET
mlx_init_no_settle(script) ==
  LET x == mlx_exit_mode(script[1])
  IN IF ~x.ok THEN [ok |-> FALSE, initialized |-> FALSE, io |-> x.io]
     ELSE LET r == mlx_reset(script[2])
          IN IF ~r.ok
             THEN [ok |-> FALSE, initialized |-> FALSE, io |-> x.io \o r.io]
             ELSE [ok |-> TRUE, initialized |-> TRUE, io |-> x.io \o r.io]

\* mlx_init that sets mlx_initialized before its two checks
mlx_init_marks_first(script) ==
  LET x == mlx_exit_mode(script[1])
  IN IF ~x.ok THEN [ok |-> FALSE, initialized |-> TRUE, io |-> x.io]
     ELSE LET r == mlx_reset(script[2])
          IN IF ~r.ok
             THEN [ok |-> FALSE, initialized |-> TRUE, io |-> x.io \o r.io]
             ELSE [ok |-> TRUE, initialized |-> TRUE,
                   io |-> x.io \o r.io \o <<Sleep(10)>>]

\* mlx_init (lines 173-179): [ok, initialized, io]
mlx_init(script) ==
  LET x == mlx_exit_mode(script[1])
  IN IF ~x.ok THEN [ok |-> FALSE, initialized |-> FALSE, io |-> x.io]
     ELSE LET r == mlx_reset(script[2])
          IN IF ~r.ok
             THEN [ok |-> FALSE, initialized |-> FALSE, io |-> x.io \o r.io]
             ELSE [ok |-> TRUE, initialized |-> TRUE,
                   io |-> x.io \o r.io \o <<Sleep(10)>>]

\* smooth with the two weights exchanged
smooth_swapped(data, filter_val, smoothed_val) ==
  F_Add(F_Mul(data, filter_val),
        F_Mul(smoothed_val, F_Sub(F_FromInt(1), filter_val)))

\* smooth (lines 181-183)
smooth(data, filter_val, smoothed_val) ==
  F_Add(F_Mul(data, F_Sub(F_FromInt(1), filter_val)),
        F_Mul(smoothed_val, filter_val))

\* calculate_force (lines 189-193)
calculate_force(z_axis_mT) ==
  LET force == F_Add(F_Mul(CALIBRATION_SLOPE, z_axis_mT), CALIBRATION_INTERCEPT)
  IN IF F_Lt(force, F_Zero) THEN F_Zero ELSE force

Line(text) == [text |-> text, num |-> FALSE, val |-> NoFloat]
ValueLine(text, v) == [text |-> text, num |-> TRUE, val |-> v]

\* lines 251-256 of main: the filter state after accepting reading z
filter_update(st, z) ==
  IF st.first_mag_reading
  THEN [smoothed_z |-> z, first_mag_reading |-> FALSE]
  ELSE [st EXCEPT !.smoothed_z = smooth(z, FILTER_VAL, st.smoothed_z)]

\* lines 251-259 of main, what follows a successful read of z: the filter
\* state and the line printed
accept_reading(st, z) ==
  LET f == filter_update(st, z)
  IN [st |-> f, out |-> <<ValueLine("Z-axis(M1): %.3f mT", f.smoothed_z)>>]

\* a failed read that puts the filter back into its initial state
read_failed_resets_filter(st) ==
  [st |-> [smoothed_z |-> F_Zero, first_mag_reading |-> TRUE],
   out |-> <<Line("Z-axis(M1): ERROR")>>]

\* a failed read after which the previous smoothed value is printed
read_failed_emits_stale(st) ==
  [st |-> st, out |-> <<ValueLine("Z-axis(M1): %.3f mT", st.smoothed_z)>>]

\* lines 260-262 of main, what follows a failed read: the filter state, left
\* as it is, and the line printed
read_failed(st) ==
  [st |-> st, out |-> <<Line("Z-axis(M1): ERROR")>>]

FilterState == [smoothed_z |-> smoothed_z, first_mag_reading |-> first_mag_reading]

(***************************************************************************)
(* What the bus may answer.  The write returns an error code (then no read *)
(* follows and r is 0) or 1; a read of n bytes returns an error code, 0,   *)
(* or a count 1..n with that many bytes delivered.  What the receive       *)
(* buffer held before is indeterminate (the callers do not initialise it). *)
(* Bytes 1..4 of a measurement (X and Y) are never used and are fixed to 0.*)
(***************************************************************************)
MaxCycles == 3

\* the contents a receive buffer of n bytes may end with
Buffers(n, St, Hi, Lo) ==
  IF n = 1 THEN {<<b>> : b \in St}
  ELSE {<<b, 0, 0, 0, 0, h, l>> : b \in St, h \in Hi, l \in Lo}

\* the byte counts a read of n bytes returns: all n, or a short read, of
\* which the shortest and the longest stand for the rest
ReadCounts(n) == {k \in {1, n - 1, n} : k >= 1}

BusResp(n, K, St, Hi, Lo) ==
  {[w |-> e, r |-> 0, data |-> <<>>, junk |-> b] :
      e \in PICO_ERRORS, b \in Buffers(n, St, Hi, Lo)}
  \cup {[w |-> 1, r |-> e, data |-> <<>>, junk |-> b] :
      e \in PICO_ERRORS \cup {0}, b \in Buffers(n, St, Hi, Lo)}
  \cup {[w |-> 1, r |-> k, data |-> SubSeq(b, 1, k), junk |-> SubSeq(b, k + 1, n)] :
      k \in K, b \in Buffers(n, St, Hi, Lo)}

\* the bytes the program's runs meet
StatusP == {0, 4, 16, 32}
ZHiP == {0, 255}
ZLoP == {0, 100}
Bus1 == BusResp(1, ReadCounts(1), StatusP, {}, {})
Bus7 == BusResp(7, ReadCounts(7), StatusP, ZHiP, ZLoP)

\* the responses one call of mlx_init and of mlx_read_data consumes
InitScripts ==
  {<<b>> : b \in {c \in Bus1 : ~mlx_exit_mode(c).ok}}
  \cup {<<b, c>> : b \in {d \in Bus1 : mlx_exit_mode(d).ok}, c \in Bus1}
ReadScripts ==
  {<<b>> : b \in {c \in Bus1 : ~mlx_start_measurement(c).ok}}
  \cup {<<b, c>> : b \in {d \in Bus1 : mlx_start_measurement(d).ok}, c \in Bus7}

Commands == {MLX90393_REG_EX, MLX90393_REG_RT, CmdSM, CmdRM}
NoCall == [fn |-> "none", arg |-> <<>>, ret |-> <<>>]

\* how often each command occurs among the exchanges of a step
Count(ev) == [c \in Commands |->
               Cardinality({i \in 1..Len(ev) : ev[i].op = "xfer" /\ ev[i].cmd = c})]
Sent(ev) == [c \in Commands |-> sent[c] + Count(ev)[c]]

\* the globals with mlx_gain starting one past the last enumerator
Init_gain_past_end ==
  /\ pc = "boot"
  /\ mlx_gain = MLX90393_GAIN_1X + 1
  /\ mlx_res_z = MLX90393_RES_16
  /\ smoothed_z = F_Zero
  /\ first_mag_reading = TRUE
  /\ mlx_initialized = FALSE
  /\ led_state = FALSE
  /\ cycle = 0
  /\ io = <<>>
  /\ out = <<>>
  /\ sent = [c \in Commands |-> 0]
  /\ accepted = <<>>
  /\ init_ret = [done |-> FALSE, ok |-> FALSE, io |-> <<>>]
  /\ call = NoCall

Init ==
  /\ pc = "boot"
  /\ mlx_gain = MLX90393_GAIN_1X
  /\ mlx_res_z = MLX90393_RES_16
  /\ smoothed_z = F_Zero
  /\ first_mag_reading = TRUE
  /\ mlx_initialized = FALSE
  /\ led_state = FALSE
  /\ cycle = 0
  /\ io = <<>>
  /\ out = <<>>
  /\ sent = [c \in Commands |-> 0]
  /\ accepted = <<>>
  /\ init_ret = [done |-> FALSE, ok |-> FALSE, io |-> <<>>]
  /\ call = NoCall

\* main up to the loop (lines 198-239): the start-up delay, mlx_init and its
\* report (the banner lines are not recorded)
Boot ==
  /\ pc = "boot"
  /\ \E script \in InitScripts :
       \E r \in {mlx_init(script)} :
          /\ mlx_initialized' = (IF r.initialized THEN TRUE ELSE mlx_initialized)
          /\ io' = <<Sleep(2000)>> \o r.io
          /\ sent' = Sent(r.io)
          /\ init_ret' = [done |-> TRUE, ok |-> r.ok, io |-> r.io]
          /\ out' = IF r.ok
                    THEN <<Line("MLX90393 initialized successfully!")>>
                    ELSE <<Line("ERROR: MLX90393 initialization failed!"),
                           Line("Check I2C wiring and sensor power.")>>
  /\ pc' = "loop"
  /\ led_state' = FALSE
  /\ UNCHANGED <<mlx_gain, mlx_res_z, smoothed_z, first_mag_reading, cycle,
                 accepted, call>>

\* one iteration of the main loop (lines 242-268)
MainLoop ==
  /\ pc = "loop"
  /\ cycle < MaxCycles
  /\ led_state' = ~led_state
  /\ cycle' = cycle + 1
  /\ IF mlx_initialized
     THEN \E script \in ReadScripts :
            \E r \in {mlx_read_data(script, mlx_gain, mlx_res_z)} :
               /\ io' = r.io \o <<Sleep(100)>>
               /\ sent' = Sent(r.io)
               /\ IF r.ok
                  THEN \E a \in {accept_reading(FilterState, r.z)} :
                       /\ smoothed_z' = a.st.smoothed_z
                       /\ first_mag_reading' = a.st.first_mag_reading
                       /\ accepted' = Append(accepted, r.z)
                       /\ out' = a.out
                  ELSE \E a \in {read_failed(FilterState)} :
                       /\ smoothed_z' = a.st.smoothed_z
                       /\ first_mag_reading' = a.st.first_mag_reading
                       /\ out' = a.out
                       /\ UNCHANGED accepted
     ELSE /\ io' = <<Sleep(100)>>
          /\ out' = <<Line("Sensor not initialized")>>
          /\ UNCHANGED <<smoothed_z, first_mag_reading, accepted, sent>>
  /\ UNCHANGED <<pc, mlx_gain, mlx_res_z, mlx_initialized, init_ret, call>>

Next == Boot \/ MainLoop

Spec == Init /\ [][Next]_vars

(***************************************************************************)
(* The functions applied on their own, to inputs drawn from wider sets     *)
(* than one run of main meets: every status byte, every gain and           *)
(* resolution, the boundary values of the two Z bytes, every byte count of *)
(* a read.  call.ret is <<>> before the call and <<result>> after it.      *)
(***************************************************************************)
MaxReadings == 3

StatusU == {0, 1, 3, 4, 16, 32, 128, 255}
ZHiU == {0, 63, 64, 127, 128, 191, 192, 255}
ZLoU == {0, 100, 255}
FieldsU ==
  {F_Dec(n, 10) : n \in 0..400} \cup {F_FromInt(n) : n \in {-20, -1, 100, 337}}
\* readings to smooth; the last is what the bytes 0x80, 0x02 decode to at the
\* default settings (count -32766)
ReadingsU ==
  {F_FromInt(10), F_FromInt(20), F_Dec(200242, 10000), F_Dec(19938, 1000),
   z_field(z_count(128, 2, MLX90393_RES_16), MLX90393_GAIN_1X, MLX90393_RES_16)}

UnitCalls ==
  {[fn |-> "mlx_transceive", arg |-> [rx_len |-> n, bus |-> b], ret |-> <<>>] :
      n \in {0}, b \in BusResp(1, 1..1, 0..255, {}, {})}
  \cup {[fn |-> "mlx_transceive", arg |-> [rx_len |-> n, bus |-> b], ret |-> <<>>] :
      n \in {6}, b \in BusResp(7, 1..7, StatusP, ZHiP, ZLoP)}
  \cup {[fn |-> f, arg |-> [bus |-> b], ret |-> <<>>] :
      f \in {"mlx_exit_mode", "mlx_reset", "mlx_start_measurement"},
      b \in BusResp(1, 1..1, 0..255, {}, {})}
  \cup {[fn |-> "calculate_force", arg |-> [z_axis_mT |-> z], ret |-> <<>>] :
      z \in FieldsU}
  \cup {[fn |-> "accept_reading", arg |-> <<>>, ret |-> <<>>]}
ReadCalls ==
  {[fn |-> "mlx_read_measurement", arg |-> [bus |-> b], ret |-> <<>>] :
      b \in BusResp(7, 1..7, StatusU, ZHiU, ZLoU)}

InitUnit ==
  /\ pc = "unit"
  /\ \/ /\ call \in UnitCalls
        /\ mlx_gain = MLX90393_GAIN_1X
        /\ mlx_res_z = MLX90393_RES_16
     \/ /\ call \in ReadCalls
        /\ mlx_gain \in 0..7
        /\ mlx_res_z \in 0..3
  /\ smoothed_z = F_Zero
  /\ first_mag_reading = TRUE
  /\ mlx_initialized = FALSE
  /\ led_state = FALSE
  /\ cycle = 0
  /\ io = <<>>
  /\ out = <<>>
  /\ sent = [c \in Commands |-> 0]
  /\ accepted = <<>>
  /\ init_ret = [done |-> FALSE, ok |-> FALSE, io |-> <<>>]

Returns(fn, v) ==
  /\ pc = "unit"
  /\ call.fn = fn
  /\ call.ret = <<>>
  /\ call' = [call EXCEPT !.ret = <<v>>]
  /\ UNCHANGED <<pc, mlx_gain, mlx_res_z, smoothed_z, first_mag_reading,
                 mlx_initialized, led_state, cycle, io, out, sent, accepted,
                 init_ret>>

U_transceive ==
  Returns("mlx_transceive", mlx_transceive(call.arg.rx_len, call.arg.bus))
U_exit_mode == Returns("mlx_exit_mode", mlx_exit_mode(call.arg.bus))
U_reset == Returns("mlx_reset", mlx_reset(call.arg.bus))
U_start_measurement ==
  Returns("mlx_start_measurement", mlx_start_measurement(call.arg.bus))
U_read_measurement ==
  Returns("mlx_read_measurement",
          mlx_read_measurement(call.arg.bus, mlx_gain, mlx_res_z))
U_calculate_force ==
  Returns("calculate_force", calculate_force(call.arg.z_axis_mT))

\* lines 251-259 applied to a reading from outside
U_accept_reading ==
  /\ pc = "unit"
  /\ call.fn = "accept_reading"
  /\ Len(accepted) < MaxReadings
  /\ \E z \in ReadingsU :
       \E a \in {accept_reading(FilterState, z)} :
          /\ smoothed_z' = a.st.smoothed_z
          /\ first_mag_reading' = a.st.first_mag_reading
          /\ accepted' = Append(accepted, z)
          /\ out' = a.out
  /\ UNCHANGED <<pc, mlx_gain, mlx_res_z, mlx_initialized, led_state, cycle,
                 io, sent, init_ret, call>>

NextUnit ==
  \/ U_transceive
  \/ U_exit_mode
  \/ U_reset
  \/ U_start_measurement
  \/ U_read_measurement
  \/ U_calculate_force
  \/ U_accept_reading

UnitSpec == InitUnit /\ [][NextUnit]_vars

(***************************************************************************)
(* Properties                                                              *)
(***************************************************************************)
\* what the bus did in an exchange, read off its response: the write and the
\* read went through (at least one byte came back), and the status code
\* (the status byte without its low 2 bits) is one of codes
BusOk(b) == b.w >= 0 /\ b.r >= 1
Transported(ev) == BusOk(ev.bus)
Answered(ev, codes) == Transported(ev) /\ (ev.bus.data[1] \div 4) \in codes
NoExchange(ev) == \A i \in 1..Len(ev) : ev[i].op # "xfer"

\* during mlx_init, the EXIT_MODE exchange failed, or the RESET exchange did
ExitFailed == init_ret.done /\ ~Answered(init_ret.io[1], {0})
ResetFailed ==
  /\ init_ret.done
  /\ Len(init_ret.io) >= 2
  /\ init_ret.io[2].cmd = MLX90393_REG_RT
  /\ ~Answered(init_ret.io[2], {1})

\* C1: if the EXIT_MODE or the RESET exchange fails during initialisation,
\* mlx_init reports failure, the driver stays uninitialised, and no bus
\* exchange is ever attempted afterwards: every later polling cycle makes
\* none and reports that the sensor is not initialised.
C1_FailedInitFailsFast ==
  (ExitFailed \/ ResetFailed) =>
     /\ ~init_ret.ok
     /\ ~mlx_initialized
     /\ sent = Count(init_ret.io)
     /\ sent[CmdSM] = 0 /\ sent[CmdRM] = 0
     /\ cycle > 0 => /\ NoExchange(io)
                     /\ out = <<Line("Sensor not initialized")>>
                     /\ accepted = <<>>

C1_Witness == ExitFailed /\ cycle = 2 /\ NoExchange(io)

\* the exchanges of a polling cycle show a failed step: START_MEASUREMENT
\* failed in transport or answered a code other than 0x00 and 0x08, or
\* READ_MEASUREMENT failed in transport or answered a non-zero code
CycleFailed(ev) ==
  \/ ev[1].cmd = CmdSM /\ ~Answered(ev[1], {0, 8})
  \/ Len(ev) >= 3 /\ ev[3].cmd = CmdRM /\ ~Answered(ev[3], {0})

C5_InitOutcome ==
  init_ret.done =>
    LET exitOk  == Answered(init_ret.io[1], {0})
        resetOk == exitOk /\ ~ResetFailed
    IN /\ init_ret.io[1].cmd = MLX90393_REG_EX
       /\ init_ret.ok <=> resetOk
       /\ mlx_initialized <=> resetOk
       /\ Count(init_ret.io)[MLX90393_REG_EX] = 1
       /\ Count(init_ret.io)[MLX90393_REG_RT] = (IF exitOk THEN 1 ELSE 0)
       /\ sent[MLX90393_REG_EX] = 1
       /\ sent[MLX90393_REG_RT] = (IF exitOk THEN 1 ELSE 0)

C5_Witness ==
  /\ init_ret.done /\ init_ret.ok /\ mlx_initialized
  /\ Answered(init_ret.io[1], {0})
  /\ Answered(init_ret.io[2], {1})

\* a function applied on its own has returned
Returned(fn) == call.fn = fn /\ call.ret # <<>>
Ret == call.ret[1]
\* the receive buffer after the read of a response
RxOf(b) == b.data \o b.junk

C4_TransceiveAllOrNothing ==
  Returned("mlx_transceive") =>
    LET b == call.arg.bus
    IN Ret.ok <=> (b.w >= 0 /\ b.r = call.arg.rx_len + 1)

\* C6: for every status byte of an exchange that went through, only the
\* code (the byte without its low 2 bits) decides: EXIT_MODE succeeds iff
\* it is 0x00, RESET iff 0x01, START_MEASUREMENT iff 0x00 or 0x08; an
\* exchange that did not go through fails whatever the status buffer held.
OkCodes(fn) ==
  CASE fn = "mlx_exit_mode" -> {0}
    [] fn = "mlx_reset" -> {1}
    [] fn = "mlx_start_measurement" -> {0, 8}
C6_StatusDecoding ==
  \A fn \in {"mlx_exit_mode", "mlx_reset", "mlx_start_measurement"} :
    Returned(fn) =>
      LET b == call.arg.bus
      IN Ret.ok <=> /\ BusOk(b)
                    /\ (b.data[1] - (b.data[1] % 4)) \in {4 * c : c \in OkCodes(fn)}

C6_Witness ==
  /\ Returned("mlx_start_measurement")
  /\ Ret.ok
  /\ call.arg.bus.data[1] = 35

\* the case of C7: a complete, accepted read of the Z bytes 0x00, 0x64 at
\* 16-bit resolution and gain 1X
C7_Case ==
  /\ Returned("mlx_read_measurement")
  /\ mlx_gain = MLX90393_GAIN_1X /\ mlx_res_z = MLX90393_RES_16
  /\ call.arg.bus.w >= 0 /\ call.arg.bus.r = 7
  /\ call.arg.bus.data[1] = 0
  /\ call.arg.bus.data[6] = 0 /\ call.arg.bus.data[7] = 100
\* 100 * (milli / 1000) / 1000 + 20, floored at 0, in float
Scaled100(milli) ==
  LET v == F_Add(F_Div(F_Mul(F_FromInt(100), F_Dec(milli, 1000)), F_FromInt(1000)),
                 F_FromInt(20))
  IN IF F_Lt(v, F_Zero) THEN F_Zero ELSE v

\* C7 as stated: the Z bytes 0x00, 0x64 at 16-bit, gain 1X decode to
\* 100 * 0.150 / 1000 + Z_OFFSET mT.
C7_ScaledBy150 == C7_Case => (Ret.ok /\ Ret.z = Scaled100(150))

\* C7 as amended: the Z bytes 0x00, 0x64 at 16-bit, gain 1X decode to
\* 100 * 0.242 / 1000 + Z_OFFSET mT: the factor is the Z entry of the
\* table, 0.242 uT per count.
C7_ScaledBy242 == C7_Case => (Ret.ok /\ Ret.z = Scaled100(242))

C7_Witness == C7_Case /\ Ret.ok

\* the big-endian two's-complement value of two bytes
Signed16(hi, lo) == IF hi >= 128 THEN hi * 256 + lo - 65536 ELSE hi * 256 + lo
\* an accepted read, and the Z bytes it decoded
ReadAccepted == Returned("mlx_read_measurement") /\ Ret.ok
ZHi == RxOf(call.arg.bus)[6]
ZLo == RxOf(call.arg.bus)[7]

\* C8 as stated: the count the decoder scales is zi - 0x8000 at 18-bit
\* resolution, zi - 0x4000 at 19-bit, zi at 16/17-bit, for every zi.
C8_ExactOffset ==
  ReadAccepted =>
    LET zi == Signed16(ZHi, ZLo)
        c  == CASE mlx_res_z = 2 -> zi - 32768
                [] mlx_res_z = 3 -> zi - 16384
                [] OTHER -> zi
    IN /\ z_count(ZHi, ZLo, mlx_res_z) = c
       /\ Ret.z = z_field(c, mlx_gain, mlx_res_z)

\* C8 as amended: the count is zi at 16/17-bit, and the offset is applied
\* within 16 bits: at 18-bit zi - 0x8000 for zi >= 0 and zi + 0x8000 for
\* zi < 0; at 19-bit zi - 0x4000 for zi >= -0x4000 and zi + 0xC000 below.
C8_OffsetWithin16Bits ==
  ReadAccepted =>
    LET zi == Signed16(ZHi, ZLo)
        c  == CASE mlx_res_z = 2 -> IF zi >= 0 THEN zi - 32768 ELSE zi + 32768
                [] mlx_res_z = 3 -> IF zi >= -16384 THEN zi - 16384 ELSE zi + 49152
                [] OTHER -> zi
    IN /\ z_count(ZHi, ZLo, mlx_res_z) = c
       /\ c \in -32768..32767
       /\ Ret.z = z_field(c, mlx_gain, mlx_res_z)

C8_Witness ==
  /\ ReadAccepted
  /\ mlx_res_z = 2
  /\ Signed16(ZHi, ZLo) = -1
  /\ z_count(ZHi, ZLo, mlx_res_z) = 32767

\* C9: every field value a successful read delivers is >= 0, whatever the
\* sample, gain and resolution, and calculate_force returns a value >= 0.
C9_NonNegative ==
  /\ ReadAccepted => ~F_Lt(Ret.z, F_Zero)
  /\ Returned("calculate_force") => ~F_Lt(Ret, F_Zero)

\* a read whose converted value was negative and came out as 0
C9_Witness ==
  /\ ReadAccepted
  /\ F_Lt(z_field_unclamped(z_count(ZHi, ZLo, mlx_res_z), mlx_gain, mlx_res_z), F_Zero)
  /\ Ret.z = F_Zero

\* r * (1 - 0.4) + old * 0.4 over the readings of seq, the first taken as is
RECURSIVE Ema(_)
Ema(seq) ==
  IF Len(seq) = 1 THEN seq[1]
  ELSE F_Add(F_Mul(seq[Len(seq)], F_Sub(F_FromInt(1), F_Dec(4, 10))),
             F_Mul(Ema(SubSeq(seq, 1, Len(seq) - 1)), F_Dec(4, 10)))

\* C10: the first accepted reading is output unchanged, becomes smoothed_z
\* and clears first_mag_reading; every later accepted reading r sets
\* smoothed_z to r * (1 - c) + smoothed_z * c, c = 0.4, and outputs it;
\* after the readings 10 and 20 the output is 16.
C10_Smoothing ==
  call.fn = "accept_reading" =>
    /\ first_mag_reading <=> accepted = <<>>
    /\ accepted # <<>> =>
         /\ smoothed_z = Ema(accepted)
         /\ out = <<ValueLine("Z-axis(M1): %.3f mT", smoothed_z)>>
    /\ Len(accepted) = 1 => smoothed_z = accepted[1]
    /\ accepted = <<F_FromInt(10), F_FromInt(20)>> => smoothed_z = F_FromInt(16)

C10_Witness ==
  /\ call.fn = "accept_reading"
  /\ accepted = <<F_FromInt(10), F_FromInt(20)>>
  /\ out[1].val = F_FromInt(16)

\* the readings accepted so far all have one value
ConstantInput ==
  /\ call.fn = "accept_reading"
  /\ accepted # <<>>
  /\ \A i \in 1..Len(accepted) : accepted[i] = accepted[1]

\* C11: while every accepted reading has the same value v, smoothed_z equals
\* v after any number of them, starting from the uninitialised filter; so
\* once smoothed_z is v, a further reading v leaves it at v.
C11_FixedPoint == ConstantInput => smoothed_z = accepted[1]

\* a step of the main loop with the driver initialised
PollsSensor == pc = "loop" /\ cycle' = cycle + 1 /\ mlx_initialized

\* C12: with the driver initialised, every polling cycle starts by sending
\* START_MEASUREMENT, sends it exactly once and READ_MEASUREMENT at most
\* once, whatever happened in the cycles before; and a cycle whose
\* START_MEASUREMENT is answered with code 0x00 or 0x08 and whose
\* READ_MEASUREMENT is answered with code 0x00 delivers a reading.
C12_NoRetryNoStickyFailure ==
  [][PollsSensor =>
       /\ io'[1].op = "xfer" /\ io'[1].cmd = CmdSM
       /\ Count(io')[CmdSM] = 1
       /\ Count(io')[CmdRM] <= 1
       /\ sent'[CmdSM] = sent[CmdSM] + 1
       /\ sent'[CmdRM] = sent[CmdRM] + Count(io')[CmdRM]
       /\ Answered(io'[1], {0, 8}) =>
            /\ Len(io') >= 3 /\ io'[3].op = "xfer" /\ io'[3].cmd = CmdRM
            /\ Answered(io'[3], {0}) =>
                 /\ Len(out') = 1 /\ out'[1].num
                 /\ Len(accepted') = Len(accepted) + 1]_vars

\* a reading delivered in the third cycle after two cycles without one
C12_Witness ==
  /\ mlx_initialized /\ cycle = 3
  /\ Len(accepted) = 1
  /\ Len(out) = 1 /\ out[1].num
  /\ sent[CmdSM] = 3

\* the exchanges of a polling cycle show a read that succeeded:
\* START_MEASUREMENT answered with code 0x00 or 0x08, then READ_MEASUREMENT
\* answered with code 0x00
ReadSucceeded(ev) ==
  /\ Len(ev) >= 3
  /\ ev[1].cmd = CmdSM /\ Answered(ev[1], {0, 8})
  /\ ev[3].cmd = CmdRM /\ Answered(ev[3], {0})

C14_ProgramOrder ==
  (pc = "loop" /\ cycle > 0 /\ mlx_initialized) =>
     /\ io[1].op = "xfer" /\ io[1].cmd = CmdSM
     /\ \A i \in 1..Len(io) :
          io[i].op = "xfer" => \/ i = 1 /\ io[i].cmd = CmdSM
                               \/ i = 3 /\ io[i].cmd = CmdRM
     /\ Count(io)[CmdRM] = 1 =>
          /\ Answered(io[1], {0, 8})
          /\ io[2] = Sleep(10)
          /\ Len(io) = 4
     /\ ~Answered(io[1], {0, 8}) => Count(io)[CmdRM] = 0 /\ Len(io) = 2
     /\ Answered(io[1], {0, 8}) => Count(io)[CmdRM] = 1
     /\ io[Len(io)] = Sleep(100)
     /\ sent[CmdSM] = cycle
     /\ sent[CmdRM] <= sent[CmdSM]

\* a second cycle in which READ_MEASUREMENT followed START_MEASUREMENT
C14_Witness ==
  /\ pc = "loop" /\ cycle = 2 /\ mlx_initialized
  /\ Len(io) = 4 /\ io[3].cmd = CmdRM /\ io[2] = Sleep(10)
  /\ sent[CmdRM] = 1

\* C15: nothing is sent before mlx_init runs; EXIT_MODE is the first command
\* sent; RESET is sent, second, only after EXIT_MODE was answered with code
\* 0x00; the driver is marked initialised only after RESET was answered with
\* code 0x01 and the delays that follow it (5 ms in mlx_reset, 10 ms in
\* mlx_init) have passed; START_MEASUREMENT and READ_MEASUREMENT are sent
\* only once all that has happened.
C15_InitOrder ==
  /\ pc = "boot" => /\ \A c \in Commands : sent[c] = 0
                    /\ ~mlx_initialized /\ ~init_ret.done
  /\ init_ret.done =>
       /\ init_ret.io[1].op = "xfer" /\ init_ret.io[1].cmd = MLX90393_REG_EX
       /\ \A i \in 1..Len(init_ret.io) :
            init_ret.io[i].op = "xfer" =>
               \/ i = 1 /\ init_ret.io[i].cmd = MLX90393_REG_EX
               \/ /\ i = 2 /\ init_ret.io[i].cmd = MLX90393_REG_RT
                  /\ Answered(init_ret.io[1], {0})
       /\ ~Answered(init_ret.io[1], {0}) => Len(init_ret.io) = 1
       /\ mlx_initialized =>
            /\ Len(init_ret.io) = 4
            /\ init_ret.io[2].cmd = MLX90393_REG_RT
            /\ Answered(init_ret.io[2], {1})
            /\ init_ret.io[3] = Sleep(5)
            /\ init_ret.io[4] = Sleep(10)
       /\ (sent[CmdSM] > 0 \/ sent[CmdRM] > 0) =>
            /\ mlx_initialized
            /\ Answered(init_ret.io[2], {1})

\* measurements under way after EXIT_MODE, RESET and the two delays
C15_Witness ==
  /\ init_ret.done /\ Len(init_ret.io) = 4
  /\ init_ret.io[3] = Sleep(5) /\ init_ret.io[4] = Sleep(10)
  /\ mlx_initialized
  /\ sent[CmdSM] = 2 /\ sent[CmdRM] = 2

\* the half of the table for the sensor's mode as the driver leaves it,
\* HALLCONF = 0xC: the first
HallconfHalf == 0
\* the sample of two raw bytes after the correction for the resolution, an
\* unsigned 16-bit value less 0x8000 at 18-bit, a signed one less 0x4000
\* (modulo 2^16) at 19-bit, a signed one at 16/17-bit
Corrected(hi, lo, res) ==
  CASE res = 2 -> hi * 256 + lo - 32768
    [] res = 3 -> ((Signed16(hi, lo) - 16384 + 32768) % 65536) - 32768
    [] OTHER -> Signed16(hi, lo)
\* max(0, count * scale / 1000 + Z_OFFSET) in float
FieldOf(count, scale) ==
  LET v == F_Add(F_Div(F_Mul(F_FromInt(count), scale), F_FromInt(1000)), F_FromInt(20))
  IN IF F_Lt(v, F_Zero) THEN F_Zero ELSE v

\* C16: for every raw Z sample, gain and resolution, the field a successful
\* read delivers is max(0, count * scale / 1000 + Z_OFFSET), count being
\* the resolution-corrected sample and scale the Z-axis entry of the row
\* (gain, resolution) in the table half of the sensor's hallconf mode.
C16_DecodedField ==
  ReadAccepted =>
    Ret.z = FieldOf(Corrected(ZHi, ZLo, mlx_res_z),
                    mlx90393_lsb_lookup(HallconfHalf, mlx_gain, mlx_res_z, 1))

\* a read at 17-bit resolution and gain 5X whose field is not floored
C16_Witness ==
  /\ ReadAccepted
  /\ mlx_gain = 0 /\ mlx_res_z = 1
  /\ ZHi = 63 /\ ZLo = 255
  /\ F_Lt(F_FromInt(20), Ret.z)

C18_SettingsInRange ==
  /\ mlx_gain \in 0..7
  /\ mlx_res_z \in 0..3
  /\ mlx_gain + 1 \in DOMAIN lsb_float[HallconfHalf + 1]
  /\ mlx_res_z + 1 \in DOMAIN lsb_float[HallconfHalf + 1][mlx_gain + 1]
  /\ mlx_gain = MLX90393_GAIN_1X
  /\ mlx_res_z = MLX90393_RES_16

\* after three cycles, each with a read exchange, some decoded and one not
C18_Witness ==
  /\ pc = "loop" /\ cycle = 3
  /\ sent[CmdRM] = 3
  /\ Len(accepted) = 2
  /\ mlx_gain = MLX90393_GAIN_1X /\ mlx_res_z = MLX90393_RES_16

\* C19: EXIT_MODE and RESET are each sent at most once in a run, and only by
\* mlx_init before the loop: no polling cycle, failed or not, sends either
\* of them; and mlx_initialized, once true, stays true.
C19_InitOnce ==
  [][/\ sent'[MLX90393_REG_EX] <= 1
     /\ sent'[MLX90393_REG_RT] <= 1
     /\ mlx_initialized => mlx_initialized'
     /\ pc = "loop" =>
          /\ Count(io')[MLX90393_REG_EX] = 0
          /\ Count(io')[MLX90393_REG_RT] = 0
          /\ sent'[MLX90393_REG_EX] = sent[MLX90393_REG_EX]
          /\ sent'[MLX90393_REG_RT] = sent[MLX90393_REG_RT]
          /\ mlx_initialized' = mlx_initialized
          /\ init_ret' = init_ret]_vars

\* three failed cycles in a row, the driver still initialised
C19_Witness ==
  /\ pc = "loop" /\ cycle = 3
  /\ mlx_initialized
  /\ accepted = <<>>
  /\ sent[MLX90393_REG_EX] = 1 /\ sent[MLX90393_REG_RT] = 1
  /\ sent[CmdSM] = 3

\* C20: every smoothed value printed lies between the smallest and the
\* largest of the readings accepted so far, and is >= 0.
C20_WithinRange ==
  (call.fn = "accept_reading" /\ accepted # <<>>) =>
     /\ out = <<ValueLine("Z-axis(M1): %.3f mT", smoothed_z)>>
     /\ \E i \in 1..Len(accepted) : ~F_Lt(smoothed_z, accepted[i])
     /\ \E i \in 1..Len(accepted) : ~F_Lt(accepted[i], smoothed_z)
     /\ ~F_Lt(smoothed_z, F_Zero)

====
